---- MODULE Spec2Model ----
(***************************************************************************)
(* Model of the fact-checking engine of omthakur7620/fact_llm:             *)
(*   src/src/vector_store.py   VectorStore (FAISS IndexFlatIP + metadata)  *)
(*   src/src/retriever.py      FactRetriever / EnhancedFactRetriever       *)
(*   src/src/fact_checker.py   FactChecker                                 *)
(*   src/src/llm_client.py     GroqClient                                  *)
(*   src/src/claim_extractor.py ClaimExtractor                             *)
(*                                                                         *)
(* Vectors are integer vectors.  faiss.normalize_L2 divides a vector by    *)
(* its Euclidean norm; a normalised vector is kept exactly, as the pair    *)
(* (num, nsq) standing for num / sqrt(nsq).  An inner product of two       *)
(* normalised vectors is the pair (d, n) standing for d / sqrt(n), and     *)
(* comparisons of such values are done exactly, by cross multiplication.   *)
(* Floating point rounding is not modelled.                                *)
(***************************************************************************)
EXTENDS Integers, Sequences, FiniteSets, TLC

\* ------------------------------------------------------------------ bounds
\* Number of documents of the corpus the callers draw from.
NumDocs == 3
\* Largest number of documents a build puts into the store it writes.
MaxRecords == 3
\* Largest number of metadata records a store reaches through a sequence of
\* create_index, add_embeddings, save and load calls.
MaxStored == 2
\* Largest number of vectors in one add_embeddings call.
MaxBatch == 2
\* Largest k of a search, and largest top_k of a retrieval.
MaxK == 2
MaxTopK == 3

\* ------------------------------------------------------------ input data
\* The embedding of document i (what EmbeddingGenerator returns for its
\* content).  Document 3 has another dimension than documents 1 and 2.
DocVec(i) ==
  CASE i = 1 -> <<1, 0>>
    [] i = 2 -> <<1, 2>>
    [] i = 3 -> <<1, 0, 0>>
    [] i = 4 -> <<0, 1, 0>>
    [] OTHER -> <<0, 1>>

Docs == 1..NumDocs

\* The metadata dict of document i: "content" always, "source" on odd ones.
DocMeta(i) ==
  IF i % 2 = 1 THEN [content |-> i, source |-> "ministry"]
               ELSE [content |-> i]

\* Dimensions passed to create_index.
Dims == {2, 3}

\* Query embeddings.
Queries == {<<2, 1>>, <<2, -1>>, <<-1, 2>>, <<1, 0, 0>>}

\* Similarity thresholds, as fractions <<p, q>> = p/q.
Thresholds == {<<3, 5>>, <<17, 20>>}

\* ---------------------------------------------------------------- helpers
Min(a, b) == IF a < b THEN a ELSE b

RECURSIVE Dot(_, _)
Dot(a, b) == IF a = <<>> \/ b = <<>> THEN 0
             ELSE Head(a) * Head(b) + Dot(Tail(a), Tail(b))

\* faiss.normalize_L2: v / |v|; a zero vector is left as it is.
NormalizeL2(v) ==
  LET s == Dot(v, v) IN [num |-> v, nsq |-> IF s = 0 THEN 1 ELSE s]

\* Inner product of two normalised vectors (IndexFlatIP's metric).
InnerProduct(a, b) == [d |-> Dot(a.num, b.num), n |-> a.nsq * b.nsq]

\* a < b for two similarities d / sqrt(n).
SimLess(a, b) ==
  IF a.d <= 0 /\ b.d > 0 THEN TRUE
  ELSE IF a.d >= 0 /\ b.d <= 0 THEN FALSE
  ELSE IF a.d > 0 THEN a.d * a.d * b.n < b.d * b.d * a.n
  ELSE a.d * a.d * b.n > b.d * b.d * a.n

SimEq(a, b) == ~SimLess(a, b) /\ ~SimLess(b, a)

\* similarity > 0 (vector_store.py line 80).
SimPositive(s) == s.d > 0

\* similarity >= p/q for a threshold p/q >= 0 (retriever.py line 61).
SimAtLeast(s, t) ==
  IF t[1] = 0 THEN s.d >= 0
  ELSE s.d > 0 /\ s.d * s.d * t[2] * t[2] >= t[1] * t[1] * s.n

\* ------------------------------------------------------------------ state
VARIABLES
  index,      \* VectorStore.index: [init, d, vecs]; init = FALSE is None
  metadata,   \* VectorStore.metadata: sequence of dicts
  diskIndex,  \* the file at index_path: [exists, d, vecs]
  diskMeta,   \* the file at metadata_path: [exists, objs]
  out         \* the last call on the store and what it returned or raised

storeVars == <<index, metadata, diskIndex, diskMeta>>

VARIABLES
  pc,               \* where check_claim is: idle, retrieve, verify, aggregate, done
  text,             \* its argument
  claims,           \* what extract_claims returned
  entities,         \* what extract_entities returned
  retrieved_facts,  \* the loop's retrieved_facts
  claim_results,    \* the loop's claim_results
  calls,            \* the calls of fact_check_claim made so far: claim, facts, response
  result            \* what check_claim returned

checkVars == <<pc, text, claims, entities, retrieved_facts, claim_results, calls, result>>

NoIndex == [init |-> FALSE, d |-> 0, vecs |-> <<>>]

\* index.ntotal
NTotal(ix) == Len(ix.vecs)

\* ------------------------------------------------------------ create_index
\* faiss.IndexFlatIP(embedding_dim): a new, empty index.  self.metadata is
\* not touched.
CreateIndexResult(ix, embedding_dim) ==
  [init |-> TRUE, d |-> embedding_dim, vecs |-> <<>>]

CreateIndex(embedding_dim) ==
  /\ index' = CreateIndexResult(index, embedding_dim)
  /\ out' = [op |-> "create_index", status |-> "ok"]
  /\ UNCHANGED <<metadata, diskIndex, diskMeta>>
  /\ UNCHANGED checkVars

\* ---------------------------------------------------------- add_embeddings
\* embeddings.shape[1] of a numpy array built from the rows: it exists only
\* for a non-empty rectangular array (otherwise shape has one entry and
\* shape[1] raises IndexError).
HasShape1(embeddings) ==
  /\ embeddings # <<>>
  /\ \A i \in 1..Len(embeddings) : Len(embeddings[i].vec) = Len(embeddings[1].vec)

Shape1(embeddings) == Len(embeddings[1].vec)

\* The checks of lines 24-32, in order; "none" when the call goes through.
AddError(ix, embeddings, meta) ==
  IF ~ix.init THEN "no_index"
  ELSE IF Len(embeddings) # Len(meta) THEN "length"
  ELSE IF ~HasShape1(embeddings) THEN "dimension"
  ELSE IF Shape1(embeddings) # ix.d THEN "dimension"
  ELSE "none"

\* faiss.normalize_L2(embeddings); self.index.add(embeddings).  Each row
\* carries the document it embeds (doc), which the program does not store:
\* it is kept to state which record a vector belongs to.
IndexAdd(ix, embeddings) ==
  [ix EXCEPT !.vecs = @ \o [i \in 1..Len(embeddings) |->
       [vec |-> NormalizeL2(embeddings[i].vec), doc |-> embeddings[i].doc]]]

\* Lines 39-51: numpy scalars and arrays become Python values; the values
\* modelled here are Python values already.
CleanMetadata(meta) == [i \in 1..Len(meta) |-> meta[i]]

\* A variant that checks each row as it inserts it: the rows before the
\* first wrong one are inserted, then the call raises.
AddEmbeddingsPartial(ix, md, embeddings, meta) ==
  LET err == IF ~ix.init THEN "no_index"
             ELSE IF Len(embeddings) # Len(meta) THEN "length"
             ELSE IF \E i \in 1..Len(embeddings) : Len(embeddings[i].vec) # ix.d
                  THEN "dimension"
             ELSE IF embeddings = <<>> THEN "dimension"
             ELSE "none"
      good == IF err = "dimension" /\ embeddings # <<>>
              THEN (CHOOSE i \in 1..Len(embeddings) :
                      /\ Len(embeddings[i].vec) # ix.d
                      /\ \A j \in 1..(i-1) : Len(embeddings[j].vec) = ix.d) - 1
              ELSE IF err = "none" THEN Len(embeddings) ELSE 0
  IN [err |-> err,
      index |-> IndexAdd(ix, SubSeq(embeddings, 1, good)),
      metadata |-> md \o CleanMetadata(SubSeq(meta, 1, good))]

\* add_embeddings as a function of the store: the error raised ("none" for
\* a normal return) and the index and metadata after the call.
AddEmbeddingsResult(ix, md, embeddings, meta) ==
  LET err == AddError(ix, embeddings, meta)
  IN IF err # "none"
     THEN [err |-> err, index |-> ix, metadata |-> md]
     ELSE [err |-> err,
           index |-> IndexAdd(ix, embeddings),
           metadata |-> md \o CleanMetadata(meta)]

AddEmbeddings(embeddings, meta) ==
  LET r == AddEmbeddingsResult(index, metadata, embeddings, meta)
  IN /\ Len(r.metadata) <= MaxStored
     /\ index' = r.index
     /\ metadata' = r.metadata
     /\ out' = [op |-> "add_embeddings",
                status |-> IF r.err = "none" THEN "ok" ELSE "raised",
                error |-> r.err,
                lens |-> [i \in 1..Len(embeddings) |-> Len(embeddings[i].vec)]]
     /\ UNCHANGED <<diskIndex, diskMeta>>
     /\ UNCHANGED checkVars

\* The batches a caller passes: up to MaxBatch documents, with their
\* metadata dicts, or with the last dict left out.
RECURSIVE SeqsUpTo(_, _)
SeqsUpTo(S, n) ==
  IF n = 0 THEN {<<>>}
  ELSE LET shorter == SeqsUpTo(S, n - 1)
       IN shorter \cup {Append(s, x) : s \in {t \in shorter : Len(t) = n - 1}, x \in S}

EmbeddingsOf(docs) == [i \in 1..Len(docs) |-> [vec |-> DocVec(docs[i]), doc |-> docs[i]]]
MetadataOf(docs) == [i \in 1..Len(docs) |-> DocMeta(docs[i])]

Batches == SeqsUpTo(Docs, MaxBatch)

MetadataArgs(docs) ==
  {MetadataOf(docs)} \cup
  (IF docs = <<>> THEN {} ELSE {MetadataOf(SubSeq(docs, 1, Len(docs) - 1))})

\* ------------------------------------------------------------------ search
\* The padding entry of IndexFlatIP.search when k exceeds ntotal: label -1
\* and the lowest float as similarity (any negative value, for line 80).
PadEntry == [idx |-> -1, sim |-> [d |-> -1, n |-> 1]]

\* The orders in which the m best of the stored vectors S (positions) can
\* come out: each next one has the largest inner product among those left.
RECURSIVE BestFirst(_, _, _, _)
BestFirst(ix, qn, S, m) ==
  IF m = 0 \/ S = {} THEN {<<>>}
  ELSE LET sim(i) == InnerProduct(ix.vecs[i].vec, qn)
           best == {i \in S : \A j \in S : ~SimLess(sim(i), sim(j))}
       IN UNION {{<<i>> \o rest : rest \in BestFirst(ix, qn, S \ {i}, m - 1)} : i \in best}

\* IndexFlatIP.search(q, k) for k > 0: the k stored vectors of largest inner
\* product with q, by decreasing inner product, with 0-based labels, padded
\* to k entries.  FAISS keeps the best k in a heap and documents no order
\* among equal inner products (it varies with the version and the code
\* path), so every order of a tie, and every choice among vectors tied at
\* the k-th place, is a possible outcome.
FaissSearch(ix, qn, k) ==
  LET m == Min(k, NTotal(ix))
  IN {[i \in 1..k |-> IF i <= m
                      THEN [idx |-> f[i] - 1, sim |-> InnerProduct(ix.vecs[f[i]].vec, qn)]
                      ELSE PadEntry] : f \in BestFirst(ix, qn, 1..NTotal(ix), m)}

\* A variant that lets a similarity of exactly zero through.
EligibleNonNegative(e, md) == e.idx < Len(md) /\ e.sim.d >= 0

\* Line 80: which entries of FAISS's answer become results.
Eligible(e, md) == e.idx < Len(md) /\ SimPositive(e.sim)

\* Lines 81-86: the result dict of one entry.
ResultOf(e, md) ==
  LET meta == md[e.idx + 1]
  IN [similarity |-> e.sim,
      content |-> meta.content,
      source |-> IF "source" \in DOMAIN meta THEN meta.source ELSE "unknown",
      id |-> e.idx]

\* Lines 78-88: the loop over FAISS's answer.
BuildResults(raw, md) ==
  LET kept == SelectSeq(raw, LAMBDA e : Eligible(e, md))
  IN [i \in 1..Len(kept) |-> ResultOf(kept[i], md)]

\* search(query_embedding, k): the set of lists it may return.  It returns
\* [] for no index, an empty index, a query of another dimension, and when
\* FAISS raises (k < 1, caught at line 90).
SearchResults(ix, md, query_embedding, k) ==
  IF ~ix.init THEN {<<>>}
  ELSE IF NTotal(ix) = 0 THEN {<<>>}
  ELSE IF Len(query_embedding) # ix.d THEN {<<>>}
  ELSE IF k < 1 THEN {<<>>}
  ELSE {BuildResults(raw, md) : raw \in FaissSearch(ix, NormalizeL2(query_embedding), k)}

Search(query_embedding, k) ==
  /\ \E res \in SearchResults(index, metadata, query_embedding, k) :
        out' = [op |-> "search", status |-> "ok",
                q |-> query_embedding, k |-> k, res |-> res]
  /\ UNCHANGED storeVars
  /\ UNCHANGED checkVars

\* --------------------------------------------------------------- save/load
\* json.dump writes each dict as an object, here its set of key/value
\* pairs; json.load builds the dict back from the pairs.
JsonDump(md) == [i \in 1..Len(md) |-> {<<key, md[i][key]>> : key \in DOMAIN md[i]}]

\* A variant that reads back the content of each record only.
JsonLoadContentOnly(objs) ==
  [i \in 1..Len(objs) |->
     [key \in {p[1] : p \in objs[i]} \cap {"content"} |->
        (CHOOSE p \in objs[i] : p[1] = key)[2]]]

JsonLoad(objs) ==
  [i \in 1..Len(objs) |->
     [key \in {p[1] : p \in objs[i]} |-> (CHOOSE p \in objs[i] : p[1] = key)[2]]]

\* faiss.write_index / faiss.read_index: dimension and stored vectors.
WriteIndex(ix) == [exists |-> TRUE, d |-> ix.d, vecs |-> ix.vecs]
ReadIndex(file) == [init |-> TRUE, d |-> file.d, vecs |-> file.vecs]

Save ==
  /\ IF ~index.init
     THEN /\ out' = [op |-> "save", status |-> "raised"]
          /\ UNCHANGED storeVars
     ELSE /\ diskIndex' = WriteIndex(index)
          /\ diskMeta' = [exists |-> TRUE, objs |-> JsonDump(metadata)]
          /\ out' = [op |-> "save", status |-> "ok"]
          /\ UNCHANGED <<index, metadata>>
  /\ UNCHANGED checkVars

\* load: the index is replaced by the file's; the metadata by the metadata
\* file's when that file exists, and is left as it is otherwise.
LoadMetadata(md, file) == IF file.exists THEN JsonLoad(file.objs) ELSE md

Load ==
  /\ IF ~diskIndex.exists
     THEN /\ out' = [op |-> "load", status |-> "raised"]
          /\ UNCHANGED storeVars
     ELSE /\ index' = ReadIndex(diskIndex)
          /\ metadata' = LoadMetadata(metadata, diskMeta)
          /\ out' = [op |-> "load", status |-> "ok"]
          /\ UNCHANGED <<diskIndex, diskMeta>>
  /\ UNCHANGED checkVars

\* ------------------------------------------------- EnhancedFactRetriever
\* Lines 59-71 of retrieve_similar_facts, from the list search returned.
\* A variant without the final slice.
EnhancedSelectNoCut(initial_results, top_k, similarity_threshold) ==
  LET filtered == SelectSeq(initial_results,
                     LAMBDA r : SimAtLeast(r.similarity, similarity_threshold))
  IN IF filtered = <<>> /\ initial_results # <<>>
     THEN SubSeq(initial_results, 1, Min(2, Len(initial_results)))
     ELSE filtered

\* A variant whose fallback fills up a short list instead of replacing an
\* empty one.
EnhancedSelectFill(initial_results, top_k, similarity_threshold) ==
  LET filtered == SelectSeq(initial_results,
                     LAMBDA r : SimAtLeast(r.similarity, similarity_threshold))
      fallback == IF Len(filtered) < 2 /\ initial_results # <<>>
                  THEN SubSeq(initial_results, 1, Min(2, Len(initial_results)))
                  ELSE filtered
  IN SubSeq(fallback, 1, Min(top_k, Len(fallback)))

\* A variant whose fallback takes top_k candidates instead of 2.
EnhancedSelectTopK(initial_results, top_k, similarity_threshold) ==
  LET filtered == SelectSeq(initial_results,
                     LAMBDA r : SimAtLeast(r.similarity, similarity_threshold))
  IN IF filtered = <<>> THEN SubSeq(initial_results, 1, Min(top_k, Len(initial_results)))
     ELSE SubSeq(filtered, 1, Min(top_k, Len(filtered)))

EnhancedSelect(initial_results, top_k, similarity_threshold) ==
  LET filtered == SelectSeq(initial_results,
                     LAMBDA r : SimAtLeast(r.similarity, similarity_threshold))
      fallback == IF filtered = <<>> /\ initial_results # <<>>
                  THEN SubSeq(initial_results, 1, Min(2, Len(initial_results)))
                  ELSE filtered
  IN SubSeq(fallback, 1, Min(top_k, Len(fallback)))

\* A variant that asks the index for top_k candidates only.
RetrieveTopKOnly(claim_embedding, top_k, similarity_threshold) ==
  /\ \E initial_results \in SearchResults(index, metadata, claim_embedding, top_k) :
        out' = [op |-> "retrieve", status |-> "ok",
                q |-> claim_embedding, top_k |-> top_k,
                threshold |-> similarity_threshold,
                searches |-> <<top_k>>,
                initial |-> initial_results,
                res |-> EnhancedSelect(initial_results, top_k, similarity_threshold)]
  /\ UNCHANGED storeVars
  /\ UNCHANGED checkVars

\* retrieve_similar_facts(claim, top_k, similarity_threshold) of
\* EnhancedFactRetriever, for the claim's embedding: one search for
\* 2 * top_k candidates, then the selection.  searches lists the k of each
\* vector_store.search call it makes.
Retrieve(claim_embedding, top_k, similarity_threshold) ==
  /\ \E initial_results \in SearchResults(index, metadata, claim_embedding, top_k * 2) :
        out' = [op |-> "retrieve", status |-> "ok",
                q |-> claim_embedding, top_k |-> top_k,
                threshold |-> similarity_threshold,
                searches |-> <<top_k * 2>>,
                initial |-> initial_results,
                res |-> EnhancedSelect(initial_results, top_k, similarity_threshold)]
  /\ UNCHANGED storeVars
  /\ UNCHANGED checkVars

\* ----------------------------------------------------------- FactRetriever
\* Lines 30-36 of the legacy FactRetriever.retrieve_similar_facts: the
\* threshold filter, and nothing else.
LegacySelect(results, similarity_threshold) ==
  SelectSeq(results, LAMBDA r : SimAtLeast(r.similarity, similarity_threshold))

\* retrieve_similar_facts(claim, top_k, similarity_threshold) of the legacy
\* FactRetriever, for the claim's embedding: one search for top_k
\* candidates, then the filter.
LegacyRetrieve(claim_embedding, top_k, similarity_threshold) ==
  /\ \E results \in SearchResults(index, metadata, claim_embedding, top_k) :
        out' = [op |-> "retrieve_legacy", status |-> "ok",
                q |-> claim_embedding, top_k |-> top_k,
                threshold |-> similarity_threshold,
                searches |-> <<top_k>>,
                initial |-> results,
                res |-> LegacySelect(results, similarity_threshold)]
  /\ UNCHANGED storeVars
  /\ UNCHANGED checkVars

\* -------------------------------------------------------- ClaimExtractor
\* A text is the sequence of its sentences (doc.sents).  Sentence 0 stands
\* for a sentence _is_factual_claim rejects, any other for one it accepts.
IsFactualClaim(sentence) == sentence # 0

\* A claim is a text: a sentence's, or the whole input's.
RECURSIVE FactualSentences(_)
FactualSentences(t) ==
  IF t = <<>> THEN <<>>
  ELSE (IF IsFactualClaim(Head(t)) THEN <<(<<Head(t)>>)>> ELSE <<>>)
       \o FactualSentences(Tail(t))

\* A variant without the fallback to the whole text.
ExtractClaimsNoFallback(t) ==
  LET found == FactualSentences(t)
  IN SubSeq(found, 1, Min(3, Len(found)))

\* A variant that returns every accepted sentence.
ExtractClaimsAll(t) ==
  LET found == FactualSentences(t)
  IN IF found = <<>> THEN <<t>> ELSE found

\* extract_claims: the accepted sentences, or the whole text when there is
\* none; at most the first 3.
ExtractClaims(t) ==
  LET found == FactualSentences(t)
      all == IF found = <<>> THEN <<t>> ELSE found
  IN SubSeq(all, 1, Min(3, Len(all)))

\* extract_entities: spaCy's entities; here one per accepted sentence.
ExtractEntities(t) ==
  LET found == FactualSentences(t)
  IN [i \in 1..Len(found) |-> [text |-> found[i][1], label |-> "ORG"]]

\* The texts callers submit.
Texts == {<<>>, <<0>>, <<1>>, <<2, 0, 1>>, <<1, 2, 3, 4>>}

\* EmbeddingGenerator.generate_embedding(claim).
ClaimVec(claim) ==
  IF claim = <<>> THEN <<2, -1>>
  ELSE CASE Head(claim) = 1 -> <<2, 1>>
         [] Head(claim) = 2 -> <<-1, 2>>
         [] OTHER -> <<2, -1>>

\* ------------------------------------------------------------- GroqClient
\* What the HTTP call of fact_check_claim comes to: an exception inside the
\* try block (transport failure, timeout, HTTP error, a body without
\* choices), or the text of the model's message: without a JSON object, or
\* with a JSON object holding some of the fields.
LLMResponses ==
  { [kind |-> "exception", msg |-> "Read timed out"],
    [kind |-> "no_json", msg |-> "No JSON found in response"],
    [kind |-> "json", obj |-> [verdict |-> "TRUE", confidence |-> "high",
                               reasoning |-> "supported", key_evidence |-> <<"e1">>]],
    [kind |-> "json", obj |-> [verdict |-> "FALSE", confidence |-> "medium",
                               reasoning |-> "contradicted", key_evidence |-> <<>>]],
    [kind |-> "json", obj |-> [verdict |-> "LIKELY TRUE"]] }

Get(dict, key, default) == IF key \in DOMAIN dict THEN dict[key] ELSE default

\* _get_error_response
ErrorResponse(error_msg) ==
  [verdict |-> "UNVERIFIABLE",
   confidence |-> "very_low",
   reasoning |-> "Service error: " \o error_msg,
   key_evidence |-> <<>>,
   semantic_matches |-> "service_unavailable",
   retrieved_facts_count |-> 0,
   retrieved_facts |-> <<>>]

\* _get_fallback_response
FallbackResponse(facts, error_msg) ==
  [verdict |-> "UNVERIFIABLE",
   confidence |-> "low",
   reasoning |-> "Analysis error: " \o error_msg,
   key_evidence |-> <<>>,
   semantic_matches |-> "analysis_failed",
   retrieved_facts_count |-> Len(facts),
   retrieved_facts |-> facts]

\* _parse_enhanced_response for a text holding the JSON object obj.
ParseEnhancedResponse(obj, facts) ==
  [verdict |-> Get(obj, "verdict", "unknown"),
   confidence |-> Get(obj, "confidence", "unknown"),
   reasoning |-> Get(obj, "reasoning", "unknown"),
   key_evidence |-> Get(obj, "key_evidence", <<>>),
   semantic_matches |-> Get(obj, "semantic_matches", "not_analyzed"),
   retrieved_facts_count |-> Len(facts),
   retrieved_facts |-> facts]

\* fact_check_claim(claim, retrieved_facts), given what the call came to.
FactCheckClaim(claim, facts, response) ==
  IF response.kind = "exception" THEN ErrorResponse(response.msg)
  ELSE IF response.kind = "no_json" THEN FallbackResponse(facts, response.msg)
  ELSE ParseEnhancedResponse(response.obj, facts)

\* ------------------------------------------------------------ FactChecker
NoResult == [status |-> "none"]

CheckIdle ==
  /\ pc = "idle"
  /\ text = <<>>
  /\ claims = <<>>
  /\ entities = <<>>
  /\ retrieved_facts = <<>>
  /\ claim_results = <<>>
  /\ calls = <<>>
  /\ result = NoResult

\* app_config.py: the defaults retrieve_similar_facts takes from config.
TOP_K_RESULTS == 8
SIMILARITY_THRESHOLD == <<3, 5>>

\* A variant of the no-claims path that goes on to _aggregate_results,
\* whose claim_results[0] raises on an empty list.
NoClaimsRaises(t) ==
  [status |-> "raised", error |-> "IndexError", original_text |-> t]

\* _get_no_claims_response
NoClaimsResponse(t) ==
  [status |-> "returned",
   original_text |-> t,
   verdict |-> "UNVERIFIABLE",
   reasoning |-> "No verifiable factual claims could be extracted from the input.",
   claims_analyzed |-> <<>>,
   entities_found |-> <<>>,
   confidence |-> "low",
   error |-> "No factual claims detected"]

\* A variant that reports the entities named in the first claim only.
AggregateResultsPrimaryEntities(t, results, ents) ==
  LET primary_result == results[1].verification_result
  IN [status |-> "returned",
      original_text |-> t,
      verdict |-> Get(primary_result, "verdict", "UNVERIFIABLE"),
      reasoning |-> Get(primary_result, "reasoning", "No reasoning provided"),
      confidence |-> Get(primary_result, "confidence", "low"),
      claims_analyzed |-> [i \in 1..Len(results) |-> results[i].claim],
      verification_details |-> results,
      entities_found |-> SelectSeq(ents, LAMBDA e : <<e.text>> = results[1].claim),
      key_evidence |-> Get(primary_result, "key_evidence", <<>>),
      retrieved_facts_count |-> Get(primary_result, "retrieved_facts_count", 0)]

\* A variant that lists the analysed claims latest first.
AggregateResultsLatestFirst(t, results, ents) ==
  LET primary_result == results[1].verification_result
  IN [status |-> "returned",
      original_text |-> t,
      verdict |-> Get(primary_result, "verdict", "UNVERIFIABLE"),
      reasoning |-> Get(primary_result, "reasoning", "No reasoning provided"),
      confidence |-> Get(primary_result, "confidence", "low"),
      claims_analyzed |-> [i \in 1..Len(results) |-> results[Len(results) + 1 - i].claim],
      verification_details |-> results,
      entities_found |-> ents,
      key_evidence |-> Get(primary_result, "key_evidence", <<>>),
      retrieved_facts_count |-> Get(primary_result, "retrieved_facts_count", 0)]

\* A variant that reports the last claim's result instead of the first's.
AggregateResultsLast(t, results, ents) ==
  LET primary_result == results[Len(results)].verification_result
  IN [status |-> "returned",
      original_text |-> t,
      verdict |-> Get(primary_result, "verdict", "UNVERIFIABLE"),
      reasoning |-> Get(primary_result, "reasoning", "No reasoning provided"),
      confidence |-> Get(primary_result, "confidence", "low"),
      claims_analyzed |-> [i \in 1..Len(results) |-> results[i].claim],
      verification_details |-> results,
      entities_found |-> ents,
      key_evidence |-> Get(primary_result, "key_evidence", <<>>),
      retrieved_facts_count |-> Get(primary_result, "retrieved_facts_count", 0)]

\* _aggregate_results, for a non-empty list
AggregateResults(t, results, ents) ==
  LET primary_result == results[1].verification_result
  IN [status |-> "returned",
      original_text |-> t,
      verdict |-> Get(primary_result, "verdict", "UNVERIFIABLE"),
      reasoning |-> Get(primary_result, "reasoning", "No reasoning provided"),
      confidence |-> Get(primary_result, "confidence", "low"),
      claims_analyzed |-> [i \in 1..Len(results) |-> results[i].claim],
      verification_details |-> results,
      entities_found |-> ents,
      key_evidence |-> Get(primary_result, "key_evidence", <<>>),
      retrieved_facts_count |-> Get(primary_result, "retrieved_facts_count", 0)]

\* check_claim(t), lines 19-24: extraction (the extractor's two answers are
\* given), and the return when there is no claim.
CheckClaim(t, extracted_claims, extracted_entities) ==
  /\ pc = "idle"
  /\ text' = t
  /\ claims' = extracted_claims
  /\ entities' = extracted_entities
  /\ IF extracted_claims = <<>>
     THEN /\ result' = NoClaimsResponse(t)
          /\ pc' = "done"
     ELSE /\ result' = result
          /\ pc' = "retrieve"
  /\ UNCHANGED <<retrieved_facts, claim_results, calls>>
  /\ UNCHANGED <<index, metadata, diskIndex, diskMeta, out>>

\* A variant whose retrieval also stores the claim's embedding in the index
\* it searches, under the claim as content.
RetrieveFactsAndStoreClaim ==
  /\ pc = "retrieve"
  /\ LET claim == claims[Len(claim_results) + 1]
         added == AddEmbeddingsResult(index, metadata,
                     <<[vec |-> ClaimVec(claim), doc |-> 0]>>, <<[content |-> claim]>>)
     IN /\ \E initial_results \in
               SearchResults(index, metadata, ClaimVec(claim), TOP_K_RESULTS * 2) :
             retrieved_facts' =
               EnhancedSelect(initial_results, TOP_K_RESULTS, SIMILARITY_THRESHOLD)
        /\ index' = added.index
        /\ metadata' = added.metadata
  /\ pc' = "verify"
  /\ UNCHANGED <<text, claims, entities, claim_results, calls, result>>
  /\ UNCHANGED <<diskIndex, diskMeta, out>>

\* Line 28: retrieved_facts = self.retriever.retrieve_similar_facts(claim),
\* with the retriever's defaults.
RetrieveFacts ==
  /\ pc = "retrieve"
  /\ LET claim == claims[Len(claim_results) + 1]
     IN \E initial_results \in
            SearchResults(index, metadata, ClaimVec(claim), TOP_K_RESULTS * 2) :
          retrieved_facts' =
            EnhancedSelect(initial_results, TOP_K_RESULTS, SIMILARITY_THRESHOLD)
  /\ pc' = "verify"
  /\ UNCHANGED <<text, claims, entities, claim_results, calls, result>>
  /\ UNCHANGED <<index, metadata, diskIndex, diskMeta, out>>

\* A variant of the loop body that does not call the verifier when nothing
\* was retrieved.
VerifyClaimSkipEmpty(claim, facts, response) ==
  IF facts = <<>>
  THEN [called |-> FALSE, verification_result |-> ErrorResponse("no evidence")]
  ELSE [called |-> TRUE, verification_result |-> FactCheckClaim(claim, facts, response)]

\* Line 29: verification_result = self.llm_client.fact_check_claim(claim,
\* retrieved_facts).
VerifyClaim(claim, facts, response) ==
  [called |-> TRUE, verification_result |-> FactCheckClaim(claim, facts, response)]

\* A variant of the loop body without fact_check_claim's try/except: an
\* exception of the HTTP call leaves check_claim there and then.
VerifyAbortOnFailure(response) ==
  /\ pc = "verify"
  /\ LET claim == claims[Len(claim_results) + 1]
         v == VerifyClaim(claim, retrieved_facts, response)
     IN /\ calls' = Append(calls, [claim |-> claim, facts |-> retrieved_facts,
                                   response |-> response])
        /\ IF response.kind = "exception"
           THEN /\ claim_results' = claim_results
                /\ result' = [status |-> "raised", error |-> response.msg]
                /\ pc' = "done"
           ELSE /\ claim_results' = Append(claim_results,
                       [claim |-> claim, verification_result |-> v.verification_result])
                /\ result' = result
                /\ pc' = IF Len(claim_results) + 1 = Len(claims)
                         THEN "aggregate" ELSE "retrieve"
  /\ UNCHANGED <<text, claims, entities, retrieved_facts>>
  /\ UNCHANGED <<index, metadata, diskIndex, diskMeta, out>>

\* A variant whose HTTP call has no timeout, with a service that does not
\* answer: the call of fact_check_claim never returns.
VerifyWithoutTimeout(response) ==
  /\ pc = "verify"
  /\ response.kind = "no_answer"
  /\ UNCHANGED checkVars
  /\ UNCHANGED <<index, metadata, diskIndex, diskMeta, out>>

\* A variant that calls the verifier again for the same claim when the
\* HTTP call raised.
VerifyRetryOnFailure(response) ==
  /\ pc = "verify"
  /\ LET claim == claims[Len(claim_results) + 1]
         v == VerifyClaim(claim, retrieved_facts, response)
     IN /\ calls' = Append(calls, [claim |-> claim, facts |-> retrieved_facts,
                                   response |-> response])
        /\ IF response.kind = "exception" /\ Len(calls) <= Len(claim_results)
           THEN /\ claim_results' = claim_results
                /\ pc' = "verify"
           ELSE /\ claim_results' = Append(claim_results,
                       [claim |-> claim, verification_result |-> v.verification_result])
                /\ pc' = IF Len(claim_results) + 1 = Len(claims)
                         THEN "aggregate" ELSE "retrieve"
  /\ UNCHANGED <<text, claims, entities, retrieved_facts, result>>
  /\ UNCHANGED <<index, metadata, diskIndex, diskMeta, out>>

\* Lines 29-35: the call of the verifier and the append; after the last
\* claim the loop ends.  calls logs each call: its arguments and what the
\* HTTP call came to.
Verify(response) ==
  /\ pc = "verify"
  /\ LET claim == claims[Len(claim_results) + 1]
         v == VerifyClaim(claim, retrieved_facts, response)
     IN /\ calls' = IF v.called
                    THEN Append(calls, [claim |-> claim, facts |-> retrieved_facts,
                                        response |-> response])
                    ELSE calls
        /\ claim_results' = Append(claim_results,
               [claim |-> claim, verification_result |-> v.verification_result])
  /\ pc' = IF Len(claim_results) + 1 = Len(claims) THEN "aggregate" ELSE "retrieve"
  /\ UNCHANGED <<text, claims, entities, retrieved_facts, result>>
  /\ UNCHANGED <<index, metadata, diskIndex, diskMeta, out>>

\* Line 38: return self._aggregate_results(text, claim_results, entities)
Aggregate ==
  /\ pc = "aggregate"
  /\ result' = AggregateResults(text, claim_results, entities)
  /\ pc' = "done"
  /\ UNCHANGED <<text, claims, entities, retrieved_facts, claim_results, calls>>
  /\ UNCHANGED <<index, metadata, diskIndex, diskMeta, out>>

\* ------------------------------------------------------------ specification
vars == <<index, metadata, diskIndex, diskMeta, out,
         pc, text, claims, entities, retrieved_facts, claim_results, calls, result>>

\* VectorStore.__init__; no file has been written yet.
Init ==
  /\ index = NoIndex
  /\ metadata = <<>>
  /\ diskIndex = [exists |-> FALSE, d |-> 0, vecs |-> <<>>]
  /\ diskMeta = [exists |-> FALSE, objs |-> <<>>]
  /\ out = [op |-> "init", status |-> "ok"]
  /\ CheckIdle

\* Any sequence of create_index, add_embeddings, save and load calls on one
\* VectorStore.
Next ==
  \/ \E d \in Dims : CreateIndex(d)
  \/ \E docs \in Batches : \E meta \in MetadataArgs(docs) :
        AddEmbeddings(EmbeddingsOf(docs), meta)
  \/ Save
  \/ Load

Spec == Init /\ [][Next]_vars

\* The serving side (app.py initialize_system, lines 30-31): a VectorStore
\* that has loaded what a build wrote, where a build is create_index, one
\* add_embeddings call with the documents' embeddings and their metadata
\* (scripts/build_vector_store.py lines 79-108; no call for no documents),
\* and save.
BuiltIndexes ==
  {LET ix == CreateIndexResult(NoIndex, d)
   IN IF docs = <<>> THEN ix
      ELSE AddEmbeddingsResult(ix, <<>>, EmbeddingsOf(docs), MetadataOf(docs)).index :
     d \in Dims, docs \in SeqsUpTo(Docs, MaxRecords)}

MetadataFor(ix) == [i \in 1..NTotal(ix) |-> DocMeta(ix.vecs[i].doc)]

InitServing ==
  /\ \E ix \in BuiltIndexes :
       /\ index = ReadIndex(WriteIndex(ix))
       /\ metadata = LoadMetadata(<<>>, [exists |-> TRUE, objs |-> JsonDump(MetadataFor(ix))])
       /\ diskIndex = WriteIndex(ix)
       /\ diskMeta = [exists |-> TRUE, objs |-> JsonDump(MetadataFor(ix))]
  /\ out = [op |-> "load", status |-> "ok"]
  /\ CheckIdle

\* Searches and retrievals on a serving store.
NextSearch ==
  \/ \E q \in Queries : \E k \in 0..MaxK : Search(q, k)
  \/ \E q \in Queries : \E top_k \in 0..MaxTopK : \E t \in Thresholds :
        Retrieve(q, top_k, t)

SpecSearch == InitServing /\ [][NextSearch]_vars

\* Retrievals of both retrievers on a serving store (main.py and demo.py
\* build the legacy one, app.py and interactive.py the enhanced one).
NextRetrievers ==
  \/ \E q \in Queries : \E top_k \in 0..MaxTopK : \E t \in Thresholds :
        LegacyRetrieve(q, top_k, t)
  \/ \E q \in Queries : \E top_k \in 0..MaxTopK : \E t \in Thresholds :
        Retrieve(q, top_k, t)

SpecRetrievers == InitServing /\ [][NextRetrievers]_vars

\* One check_claim call of a FactChecker built on a serving store
\* (app.py lines 28-34), with the repository's ClaimExtractor.
NextCheck ==
  \/ \E t \in Texts : CheckClaim(t, ExtractClaims(t), ExtractEntities(t))
  \/ RetrieveFacts
  \/ \E response \in LLMResponses : Verify(response)
  \/ Aggregate

SpecCheck == InitServing /\ [][NextCheck]_vars

\* A serving store of up to MaxStored records.
InitServingSmall ==
  /\ InitServing
  /\ NTotal(index) <= MaxStored

\* The same call on such a store, run to its end: a call that has started
\* goes on, since check_claim is sequential code whose steps each return:
\* the search is a bounded loop over the index, and requests.post is given
\* timeout=30 (llm_client.py line 37), so that a service that does not
\* answer makes the call raise, which is the "exception" response.
SpecCheckLive ==
  /\ InitServingSmall
  /\ [][NextCheck]_vars
  /\ WF_vars(RetrieveFacts)
  /\ WF_vars(\E response \in LLMResponses : Verify(response))
  /\ WF_vars(Aggregate)

\* The same with any claim extractor: FactChecker takes its extractor as a
\* constructor argument (fact_checker.py line 10), and this one may return
\* no claim at all.
AnyExtractorClaims(t) == {ExtractClaims(t), <<>>}

NextCheckAnyExtractor ==
  \/ \E t \in Texts : \E cs \in AnyExtractorClaims(t) :
        CheckClaim(t, cs, ExtractEntities(t))
  \/ RetrieveFacts
  \/ \E response \in LLMResponses : Verify(response)
  \/ Aggregate

SpecCheckAnyExtractor == InitServing /\ [][NextCheckAnyExtractor]_vars

\* ---------------------------------------------------------------- claims
\* The inner product of the stored vector at position i (1-based) with the
\* normalised query q.
StoredSim(i, q) == InnerProduct(index.vecs[i].vec, NormalizeL2(q))

\* C1: after any sequence of create_index, add_embeddings, save and load
\* calls, the store holds as many vectors as metadata records, and the
\* record at position i is the one of the document whose vector is at
\* position i.
C1_Aligned ==
  /\ NTotal(index) = Len(metadata)
  /\ \A i \in 1..NTotal(index) :
        i <= Len(metadata) /\ metadata[i] = DocMeta(index.vecs[i].doc)

\* C2: an add_embeddings call that raises because the numbers of vectors
\* and of records differ, or because of the vectors' length, leaves the
\* index and the metadata list as they were.
C2_FailedAddNoEffect ==
  [][(/\ out'.op = "add_embeddings"
      /\ out'.status = "raised"
      /\ out'.error \in {"length", "dimension"})
     => (index' = index /\ metadata' = metadata)]_vars

\* A batch of a vector of length D and one of length D + 1 has been refused
\* by a D-dimensional index that holds a record.
C2_Witness ==
  /\ out.op = "add_embeddings"
  /\ out.status = "raised"
  /\ out.error = "dimension"
  /\ index.init /\ NTotal(index) >= 1
  /\ out.lens = <<index.d, index.d + 1>>

\* The positions (1-based) a search for q may return: records with a
\* metadata entry and a positive similarity.
EligiblePositions(q) ==
  {i \in 1..NTotal(index) : i <= Len(metadata) /\ StoredSim(i, q).d > 0}

\* Position i comes before position j: larger similarity, or the same
\* similarity and inserted earlier.
Precedes(i, j, q) ==
  \/ SimLess(StoredSim(j, q), StoredSim(i, q))
  \/ SimEq(StoredSim(i, q), StoredSim(j, q)) /\ i < j

\* C3: search(query, k) returns the eligible records of the k highest
\* similarities, by decreasing similarity, and of two records of equal
\* similarity the one inserted earlier first.
C3_TopKEarlierFirst ==
  (out.op = "search" /\ out.k >= 1 /\ index.init /\ Len(out.q) = index.d) =>
    LET res == out.res
        pos(p) == res[p].id + 1
        elig == EligiblePositions(out.q)
    IN /\ Len(res) = Min(out.k, Cardinality(elig))
       /\ \A p \in 1..Len(res) : pos(p) \in elig
       /\ \A p, r \in 1..Len(res) : p < r => Precedes(pos(p), pos(r), out.q)
       /\ \A i \in elig : (\A p \in 1..Len(res) : pos(p) # i) =>
             \A p \in 1..Len(res) : Precedes(pos(p), i, out.q)

\* C4: every candidate search returns has a similarity greater than 0.
C4_PositiveOnly ==
  /\ out.op = "search" => \A p \in 1..Len(out.res) : out.res[p].similarity.d > 0
  /\ out.op = "retrieve" =>
        \A p \in 1..Len(out.initial) : out.initial[p].similarity.d > 0

\* A search for k = 2 on a store of two or more records, one of them of
\* similarity exactly zero, has returned a single candidate.
C4_Witness ==
  /\ out.op = "search" /\ out.k = 2
  /\ index.init /\ Len(out.q) = index.d
  /\ NTotal(index) >= 2
  /\ \E i \in 1..NTotal(index) : StoredSim(i, out.q).d = 0
  /\ Len(out.res) = 1

\* similarity >= threshold, for the claims.
MeetsThreshold(r, t) ==
  /\ r.similarity.d >= 0
  /\ r.similarity.d * r.similarity.d * t[2] * t[2] >= t[1] * t[1] * r.similarity.n

\* C5: when no candidate of the unfiltered query meets the threshold and
\* the query returned n >= 1 candidates, retrieve_similar_facts returns
\* exactly the first min(2, n, top_k) of them.
C5_FallbackTopTwo ==
  (/\ out.op = "retrieve"
   /\ Len(out.initial) >= 1
   /\ \A p \in 1..Len(out.initial) : ~MeetsThreshold(out.initial[p], out.threshold))
  => out.res = SubSeq(out.initial, 1, Min(2, Min(Len(out.initial), out.top_k)))

\* Three candidates, none meeting the threshold, top_k = 3: two returned.
C5_Witness ==
  /\ out.op = "retrieve"
  /\ out.top_k = 3
  /\ Len(out.initial) = 3
  /\ \A p \in 1..3 : ~MeetsThreshold(out.initial[p], out.threshold)
  /\ Len(out.res) = 2

\* C6: when a candidate of the unfiltered query meets the threshold, every
\* returned candidate meets it.
C6_NoMixing ==
  (/\ out.op = "retrieve"
   /\ \E p \in 1..Len(out.initial) : MeetsThreshold(out.initial[p], out.threshold))
  => \A p \in 1..Len(out.res) : MeetsThreshold(out.res[p], out.threshold)

\* The unfiltered query returned one candidate that meets the threshold and
\* one that does not, and top_k leaves room for both.
C6_Witness ==
  /\ out.op = "retrieve"
  /\ out.top_k >= 2
  /\ \E p \in 1..Len(out.initial) : MeetsThreshold(out.initial[p], out.threshold)
  /\ \E p \in 1..Len(out.initial) : ~MeetsThreshold(out.initial[p], out.threshold)
  /\ Len(out.res) = 1

\* C7: retrieve_similar_facts returns at most top_k candidates, by
\* decreasing similarity.
C7_AtMostTopKDescending ==
  out.op = "retrieve" =>
    /\ Len(out.res) <= out.top_k
    /\ \A p, r \in 1..Len(out.res) :
          p < r => ~SimLess(out.res[p].similarity, out.res[r].similarity)

\* More candidates meet the threshold than top_k allows, and top_k of
\* different similarities came back.
C7_Witness ==
  /\ out.op = "retrieve"
  /\ out.top_k = 2
  /\ Cardinality({p \in 1..Len(out.initial) :
                    MeetsThreshold(out.initial[p], out.threshold)}) = 3
  /\ Len(out.res) = 2
  /\ SimLess(out.res[2].similarity, out.res[1].similarity)

\* C8: with no record in the index, retrieval returns an empty list for
\* every claim and check_claim still calls the verifier for each claim, in
\* order, with an empty evidence list, and returns.
C8_EmptyIndexStillVerified ==
  NTotal(index) = 0 =>
    /\ pc = "verify" => retrieved_facts = <<>>
    /\ Len(calls) = Len(claim_results)
    /\ \A c \in 1..Len(calls) :
          c <= Len(claims) /\ calls[c].claim = claims[c] /\ calls[c].facts = <<>>
    /\ pc = "done" => result.status = "returned" /\ Len(calls) = Len(claims)

\* A call on an empty index has returned after verifying two claims.
C8_Witness ==
  /\ index.init /\ NTotal(index) = 0
  /\ pc = "done"
  /\ Len(claims) = 2
  /\ Len(calls) = 2
  /\ calls[1].facts = <<>> /\ calls[2].facts = <<>>

\* C9: with no per-claim result (no claim extracted), check_claim returns,
\* without raising, verdict UNVERIFIABLE, confidence low, the fixed
\* reasoning string and claims_analyzed = [].
C9_NoClaimsUnverifiable ==
  (pc = "done" /\ claims = <<>>) =>
    /\ result.status = "returned"
    /\ claim_results = <<>>
    /\ result.verdict = "UNVERIFIABLE"
    /\ result.confidence = "low"
    /\ result.reasoning = "No verifiable factual claims could be extracted from the input."
    /\ result.claims_analyzed = <<>>

\* A call on a text of several sentences for which the extractor returned
\* no claim has returned.
C9_Witness ==
  /\ pc = "done"
  /\ claims = <<>>
  /\ Len(text) >= 2
  /\ result.status = "returned"

\* C10: for a non-empty list of per-claim results, the verdict, confidence,
\* reasoning and key_evidence returned are those of the first claim's
\* result.
C10_FirstClaimDecides ==
  (pc = "done" /\ claim_results # <<>>) =>
    LET first == claim_results[1].verification_result
    IN /\ result.status = "returned"
       /\ result.verdict = first.verdict
       /\ result.confidence = first.confidence
       /\ result.reasoning = first.reasoning
       /\ result.key_evidence = first.key_evidence

\* First claim TRUE, second claim FALSE: TRUE returned, two claims analysed.
C10_Witness ==
  /\ pc = "done"
  /\ Len(claim_results) = 2
  /\ claim_results[1].verification_result.verdict = "TRUE"
  /\ claim_results[2].verification_result.verdict = "FALSE"
  /\ result.verdict = "TRUE"
  /\ Len(result.claims_analyzed) = 2

\* C11: in the result of check_claim, claims_analyzed is the list of the
\* extracted claims, in extraction order, and verification_details holds
\* one entry per claim in the same order: entry i carries claim i and the
\* outcome of the verifier's call for claim i.
C11_ResultsInExtractionOrder ==
  (pc = "done" /\ claims # <<>>) =>
    /\ result.claims_analyzed = claims
    /\ Len(result.verification_details) = Len(claims)
    /\ Len(calls) = Len(claims)
    /\ \A i \in 1..Len(claims) :
          /\ result.verification_details[i].claim = claims[i]
          /\ calls[i].claim = claims[i]
          /\ result.verification_details[i].verification_result =
                FactCheckClaim(claims[i], calls[i].facts, calls[i].response)

\* Three different claims, the second one's call failed, the third one's
\* returned TRUE.
C11_Witness ==
  /\ pc = "done"
  /\ Len(claims) = 3
  /\ claims[1] # claims[2] /\ claims[2] # claims[3] /\ claims[1] # claims[3]
  /\ calls[2].response.kind = "exception"
  /\ result.verification_details[3].verification_result.verdict = "TRUE"
  /\ result.claims_analyzed = claims

\* The fields a result of check_claim is read by (main.py lines 44-60,
\* app.py lines 112-153).
RequiredFields ==
  {"original_text", "verdict", "confidence", "reasoning", "key_evidence",
   "claims_analyzed", "verification_details", "entities_found",
   "retrieved_facts_count"}

\* C12: every result check_claim returns, on the no-claims path as on the
\* aggregated path, has all the fields original_text, verdict, confidence,
\* reasoning, key_evidence, claims_analyzed, verification_details,
\* entities_found and retrieved_facts_count.
C12_AllRequiredFields ==
  pc = "done" => (result.status = "returned" /\ RequiredFields \subseteq DOMAIN result)

\* C13: whenever the verifier's call fails (an exception of the HTTP call,
\* or a message no JSON object can be read from), fact_check_claim returns
\* verdict UNVERIFIABLE, confidence very_low, a reasoning that carries the
\* error's description, and an empty key_evidence list.
C13_FailureIsVeryLow ==
  \A i \in 1..Len(claim_results) :
    (i <= Len(calls) /\ calls[i].response.kind \in {"exception", "no_json"}) =>
      LET r == claim_results[i].verification_result
      IN /\ r.verdict = "UNVERIFIABLE"
         /\ r.confidence = "very_low"
         /\ r.reasoning \in {"Service error: " \o calls[i].response.msg,
                             "Analysis error: " \o calls[i].response.msg}
         /\ r.key_evidence = <<>>

\* C14: a failure of the verifier on a claim never makes check_claim raise
\* and never ends the loop early: whatever calls fail, every extracted
\* claim is passed to the verifier, and check_claim returns a result with
\* one outcome per extracted claim.
C14_FailuresDoNotStopTheCall ==
  /\ result.status # "raised"
  /\ pc \in {"retrieve", "verify"} => Len(claim_results) < Len(claims)
  /\ (pc = "done" /\ claims # <<>>) =>
        /\ result.status = "returned"
        /\ Len(calls) = Len(claims)
        /\ \A i \in 1..Len(claims) : calls[i].claim = claims[i]
        /\ Len(result.verification_details) = Len(claims)

\* The first claim's call raised, the second's message held no JSON, the
\* third's was read; three outcomes returned.
C14_Witness ==
  /\ pc = "done"
  /\ Len(claims) = 3
  /\ Len(calls) = 3
  /\ calls[1].response.kind = "exception"
  /\ calls[2].response.kind = "no_json"
  /\ calls[3].response.kind = "json"
  /\ result.status = "returned"
  /\ Len(result.verification_details) = 3
  /\ result.verification_details[1].verification_result.confidence = "very_low"

C16_LoadRejectsMismatch ==
  (out.op = "load" /\ out.status = "ok") => NTotal(index) = Len(metadata)

\* C17: a search on a store that holds vectors, direct or through
\* retrieve_similar_facts, whose query has another length than the index
\* dimension raises an error, which tells it from a search that found
\* nothing.  (No search changes vectors or metadata.)
C17_DimensionMismatchRaises ==
  (/\ out.op \in {"search", "retrieve"}
   /\ index.init
   /\ NTotal(index) > 0
   /\ Len(out.q) # index.d)
  => out.status = "raised"

\* C18: invalid configuration is refused before any work is done; for the
\* retrieval, retrieve_similar_facts with a top_k that is not positive
\* raises an error instead of returning a list.
C18_NonPositiveTopKRaises ==
  (out.op = "retrieve" /\ out.top_k < 1) => out.status = "raised"

\* C19: every id in a search result is a positive integer given by
\* insertion order, the first inserted record included: the record inserted
\* i-th (i = 1, 2, ...) is reported with id i.
C19_IdsPositiveByInsertion ==
  (out.op = "search" /\ index.init /\ Len(out.q) = index.d) =>
    \A p \in 1..Len(out.res) :
      /\ out.res[p].id >= 1
      /\ out.res[p].id <= NTotal(index)
      /\ out.res[p].content = metadata[out.res[p].id].content
      /\ out.res[p].similarity = StoredSim(out.res[p].id, out.q)

Verdicts == {"TRUE", "LIKELY_TRUE", "FALSE", "LIKELY_FALSE", "UNVERIFIABLE"}

Confidences == {"high", "medium", "low", "very_low"}

\* C20: whatever the reasoning service answers, the verdict of every
\* per-claim result and of every result check_claim returns is one of TRUE,
\* LIKELY_TRUE, FALSE, LIKELY_FALSE, UNVERIFIABLE, and its confidence is
\* one of high, medium, low, very_low.
C20_VerdictAndConfidenceInEnum ==
  /\ \A i \in 1..Len(claim_results) :
        /\ claim_results[i].verification_result.verdict \in Verdicts
        /\ claim_results[i].verification_result.confidence \in Confidences
  /\ pc = "done" => (result.verdict \in Verdicts /\ result.confidence \in Confidences)

\* C21: in every check_claim call with at least one claim, the
\* retrieved_facts_count returned is the number of candidates the retrieval
\* returned for the first claim, also when the verifier's call for that
\* claim failed.
C21_CountIsFirstClaimsCandidates ==
  (pc = "done" /\ claims # <<>>) =>
    result.retrieved_facts_count = Len(calls[1].facts)

\* The positions of the sentences of the text that qualify as claims.
QualifyingPositions == {j \in 1..Len(text) : text[j] # 0}

\* C22: one check_claim call retrieves evidence for and verifies at most 3
\* claims, whatever the number of sentences of the text, and when sentences
\* qualify the claims kept are the first 3 qualifying ones, in their order.
C22_AtMostThreeClaims ==
  pc # "idle" =>
    /\ Len(claims) <= 3
    /\ Len(calls) <= 3
    /\ Len(claim_results) <= 3
    /\ QualifyingPositions # {} =>
          /\ Len(claims) = Min(3, Cardinality(QualifyingPositions))
          /\ \A i \in 1..Len(claims) :
                \E j \in QualifyingPositions :
                   /\ Cardinality({m \in QualifyingPositions : m < j}) = i - 1
                   /\ claims[i] = <<text[j]>>

\* A text of four qualifying sentences: the first three were verified.
C22_Witness ==
  /\ pc = "done"
  /\ Cardinality(QualifyingPositions) = 4
  /\ Len(calls) = 3
  /\ calls[3].claim = <<text[3]>>
  /\ Len(result.claims_analyzed) = 3

C24_StepOrder ==
  [][/\ pc = "idle" =>
          /\ pc' = (IF claims' = <<>> THEN "done" ELSE "retrieve")
          /\ calls' = <<>> /\ claim_results' = <<>>
          /\ (claims' = <<>>) => result'.status = "returned"
     /\ pc = "retrieve" =>
          /\ pc' = "verify"
          /\ calls' = calls /\ claim_results' = claim_results
          /\ Len(claim_results) < Len(claims)
     /\ pc = "verify" =>
          /\ Len(calls') = Len(calls) + 1
          /\ SubSeq(calls', 1, Len(calls)) = calls
          /\ calls'[Len(calls')].claim = claims[Len(calls')]
          /\ calls'[Len(calls')].facts = retrieved_facts
          /\ Len(claim_results') = Len(calls')
          /\ SubSeq(claim_results', 1, Len(claim_results)) = claim_results
          /\ claim_results'[Len(calls')].claim = claims[Len(calls')]
          /\ pc' = (IF Len(calls') = Len(claims) THEN "aggregate" ELSE "retrieve")
     /\ pc = "aggregate" =>
          /\ Len(calls) = Len(claims)
          /\ pc' = "done"
          /\ result'.status = "returned"
          /\ calls' = calls /\ claim_results' = claim_results
     /\ pc = "done" => FALSE
     /\ pc # "idle" => (claims' = claims /\ text' = text)]_vars

\* A call on three claims has returned: three calls of the verifier, in the
\* claims' order, the first of which raised.
C24_Witness ==
  /\ pc = "done"
  /\ Len(claims) = 3
  /\ Len(calls) = 3
  /\ \A i \in 1..3 : calls[i].claim = claims[i]
  /\ calls[1].response.kind = "exception"
  /\ result.status = "returned"
  /\ "verification_details" \in DOMAIN result

\* C25: every check_claim call that has started returns a result, also
\* when the service does not answer: the verifier's call is bounded by its
\* timeout, whose expiry gives an UNVERIFIABLE result for the claim, and
\* the loop runs once per claim.
C25_EveryCallReturns ==
  (pc # "idle") ~> (pc = "done" /\ result.status = "returned")

\* A call has returned in which the verifier's call timed out for each of
\* three claims, each of them given UNVERIFIABLE.
C25_Witness ==
  /\ pc = "done"
  /\ result.status = "returned"
  /\ Len(calls) = 3
  /\ \A i \in 1..3 :
        /\ calls[i].response = [kind |-> "exception", msg |-> "Read timed out"]
        /\ result.verification_details[i].verification_result.verdict = "UNVERIFIABLE"

\* C26: retrieve_similar_facts makes exactly one search on the index, for
\* 2 * top_k candidates, and filters afterwards: what the search hands back
\* is every record of positive similarity up to 2 * top_k of them.
C26_OneQueryForTwiceTopK ==
  out.op = "retrieve" =>
    /\ out.searches = <<2 * out.top_k>>
    /\ (index.init /\ Len(out.q) = index.d) =>
          Len(out.initial) = Min(2 * out.top_k, Cardinality(EligiblePositions(out.q)))

\* With top_k = 1 the search handed back two candidates, of which one was
\* returned.
C26_Witness ==
  /\ out.op = "retrieve"
  /\ out.top_k = 1
  /\ Len(out.initial) = 2
  /\ Len(out.res) = 1

\* C27: the index is append-only: no create_index, add_embeddings or save
\* call on a VectorStore lowers the number of stored vectors or of
\* records, and the vector and the record stored at a position stay what
\* they are.
C27_AppendOnly ==
  [][out'.op \in {"create_index", "add_embeddings", "save"} =>
       /\ NTotal(index') >= NTotal(index)
       /\ Len(metadata') >= Len(metadata)
       /\ \A i \in 1..NTotal(index) : index'.vecs[i] = index.vecs[i]
       /\ \A i \in 1..Len(metadata) : metadata'[i] = metadata[i]]_vars

C29_ExtractorNeverEmpty ==
  /\ pc # "idle" =>
        /\ Len(claims) >= 1 /\ Len(claims) <= 3
        /\ QualifyingPositions = {} => claims = <<text>>
  /\ pc = "done" =>
        /\ Len(calls) >= 1
        /\ "verification_details" \in DOMAIN result
        /\ "error" \notin DOMAIN result

\* A call on a text whose only sentence does not qualify has returned after
\* verifying the whole text as its single claim.
C29_Witness ==
  /\ pc = "done"
  /\ Len(text) = 1
  /\ QualifyingPositions = {}
  /\ claims = <<text>>
  /\ Len(calls) = 1
  /\ calls[1].claim = text
  /\ result.claims_analyzed = <<text>>

\* C30: the legacy FactRetriever searches for top_k candidates and returns
\* those of similarity >= threshold, without fallback: an empty list when
\* none of them meets the threshold, and, when one does, the list
\* EnhancedFactRetriever returns for the same query, top_k and threshold.
C30_LegacyAgreesWithEnhanced ==
  out.op = "retrieve_legacy" =>
    /\ out.searches = <<out.top_k>>
    /\ (\A p \in 1..Len(out.initial) : ~MeetsThreshold(out.initial[p], out.threshold))
          => out.res = <<>>
    /\ (\E p \in 1..Len(out.initial) : MeetsThreshold(out.initial[p], out.threshold))
          => \A e \in SearchResults(index, metadata, out.q, 2 * out.top_k) :
                out.res = EnhancedSelect(e, out.top_k, out.threshold)

====
